---- MODULE Spec2Model ----
(***************************************************************************)
(* Request models of chromadb/server/fastapi/types.py.                     *)
(*                                                                         *)
(* Every class of the file is a pydantic BaseModel: constructing it from a *)
(* raw JSON mapping either yields the typed request or raises a            *)
(* ValidationError naming the offending fields.  The field declarations    *)
(* are written in the pydantic 1.x idiom (Field(None) on a non-Optional    *)
(* annotation, the example= keyword, the comment on Union[int, float]      *)
(* coercion at lines 10-12), so the validators below follow pydantic 1.x:  *)
(* str, int and Dict fields coerce, List fields accept only sequences,     *)
(* Any fields pass their value through, defaults are copied per instance.  *)
(***************************************************************************)
EXTENDS Integers, Sequences, FiniteSets, TLC

VARIABLES model, payload, result, lastStep, classDefault, includeShared,
          mutated, nFailed, response

vars == <<model, payload, result, lastStep, classDefault, includeShared,
          mutated, nFailed, response>>

(***************************************************************************)
(* Bounds of the model.                                                    *)
(***************************************************************************)
MaxLen == 2        \* longest replicated list in a payload
MaxInclude == 4    \* longest include list a caller grows by mutation
MaxFailed == 1     \* failed validations counted
MaxNumeral == 12   \* numerals -MaxNumeral..MaxNumeral are recognised by int(str)

(***************************************************************************)
(* JSON / Python values, tagged by kind.  A float is held as twice its     *)
(* value (0.5 is F(1), 1.0 is F(2), 2.5 is F(5)); a dict is a function     *)
(* from key values to values; a list is a sequence.                        *)
(***************************************************************************)
Absent == [k |-> "absent", v |-> 0]
Null == [k |-> "null", v |-> 0]
I(n) == [k |-> "int", v |-> n]
F(twice) == [k |-> "float", v |-> twice]
B(b) == [k |-> "bool", v |-> b]
S(s) == [k |-> "str", v |-> s]
L(seq) == [k |-> "list", v |-> seq]
D(fn) == [k |-> "dict", v |-> fn]

EmptyDict == D(<<>>)

Rep(e, n) == L([i \in 1..n |-> e])

Range(seq) == {seq[i] : i \in DOMAIN seq}

(***************************************************************************)
(* Python conversions used by the pydantic validators.                     *)
(***************************************************************************)
Digit(d) == <<"0", "1", "2", "3", "4", "5", "6", "7", "8", "9">>[d + 1]

RECURSIVE NatStr(_)
NatStr(n) == IF n < 10 THEN Digit(n) ELSE NatStr(n \div 10) \o Digit(n % 10)

\* str(int)
IntStr(n) == IF n < 0 THEN "-" \o NatStr(-n) ELSE NatStr(n)

Abs(n) == IF n < 0 THEN -n ELSE n

\* str(float) for a float held as twice its value
FloatStr(twice) ==
    (IF twice < 0 THEN "-" ELSE "") \o NatStr(Abs(twice) \div 2)
        \o (IF Abs(twice) % 2 = 0 THEN ".0" ELSE ".5")

\* int(float): truncation toward zero
FloatTrunc(twice) == IF twice < 0 THEN -(Abs(twice) \div 2) ELSE twice \div 2

Numerals == (-MaxNumeral)..MaxNumeral

\* int(str): the decimal numerals are recognised, anything else is a ValueError
IsNumeral(s) == \E n \in Numerals : IntStr(n) = s

IntOfStr(s) == CHOOSE n \in Numerals : IntStr(n) = s

\* str.lower() on the spellings of the boolean words
Lower(s) ==
    CASE s \in {"True", "TRUE"} -> "true"
      [] s \in {"False", "FALSE"} -> "false"
      [] OTHER -> s

(***************************************************************************)
(* Validators.  Each returns [err, val]: err is TRUE when the value is     *)
(* refused, val is the validated (possibly coerced) value otherwise.       *)
(***************************************************************************)
Ok(v) == [err |-> FALSE, val |-> v]
Bad == [err |-> TRUE, val |-> Null]

\* typing.Any: the value is kept as it came
AnyV(v) == Ok(v)

\* str: a str is kept; int, float and bool (an int) are passed to str()
StrV(v) ==
    CASE v.k = "str" -> Ok(v)
      [] v.k = "int" -> Ok(S(IntStr(v.v)))
      [] v.k = "float" -> Ok(S(FloatStr(v.v)))
      [] v.k = "bool" -> Ok(S(IF v.v THEN "True" ELSE "False"))
      [] OTHER -> Bad

\* int: an int is kept; everything else is passed to int()
IntV(v) ==
    CASE v.k = "int" -> Ok(v)
      [] v.k = "bool" -> Ok(I(IF v.v THEN 1 ELSE 0))
      [] v.k = "float" -> Ok(I(FloatTrunc(v.v)))
      [] v.k = "str" -> IF IsNumeral(v.v) THEN Ok(I(IntOfStr(v.v))) ELSE Bad
      [] OTHER -> Bad

BoolTrue == {"1", "on", "t", "true", "y", "yes"}
BoolFalse == {"0", "off", "f", "false", "n", "no"}

\* bool: True/False, 0/1 and the boolean words
BoolV(v) ==
    CASE v.k = "bool" -> Ok(v)
      [] v.k = "int" /\ v.v \in {0, 1} -> Ok(B(v.v = 1))
      [] v.k = "float" /\ v.v \in {0, 2} -> Ok(B(v.v = 2))
      [] v.k = "str" /\ Lower(v.v) \in BoolTrue -> Ok(B(TRUE))
      [] v.k = "str" /\ Lower(v.v) \in BoolFalse -> Ok(B(FALSE))
      [] OTHER -> Bad

Hashable(v) == v.k \notin {"list", "dict"}

\* one item of the iterable handed to dict(): a two-element list whose first
\* element can be a key.  (Two-character strings and two-key dicts, which
\* dict() also unpacks, are not among the payload values.)
IsPair(e) == e.k = "list" /\ Len(e.v) = 2 /\ Hashable(e.v[1])

RECURSIVE DictOfPairs(_)
DictOfPairs(seq) ==
    IF seq = <<>> THEN <<>>
    ELSE LET n == Len(seq)
             rest == DictOfPairs(SubSeq(seq, 1, n - 1))
         IN  (seq[n].v[1] :> seq[n].v[2]) @@ rest

\* Dict[str, str]: keys and values validated as str
DictStrStrV(v) ==
    IF v.k # "dict" THEN Bad
    ELSE IF \E x \in DOMAIN v.v : StrV(x).err \/ StrV(v.v[x]).err THEN Bad
    ELSE Ok(D([x \in {StrV(y).val : y \in DOMAIN v.v} |->
                 StrV(v.v[CHOOSE y \in DOMAIN v.v : StrV(y).val = x]).val]))

\* Dict[Any, Any]: a dict is kept; anything else is passed to dict(), which
\* accepts an iterable of key/value pairs
DictV(v) ==
    CASE v.k = "dict" -> Ok(v)
      [] v.k = "list" ->
            IF \A i \in DOMAIN v.v : IsPair(v.v[i])
            THEN Ok(D(DictOfPairs(v.v))) ELSE Bad
      [] v.k = "str" -> IF Len(v.v) = 0 THEN Ok(EmptyDict) ELSE Bad
      [] OTHER -> Bad

(***************************************************************************)
(* Types imported from chromadb.api.types.                                 *)
(***************************************************************************)
IncludeNames == {"documents", "embeddings", "metadatas", "distances"}

\* one selector of Include
LiteralV(v) == IF v.k = "str" /\ v.v \in IncludeNames THEN Ok(v) ELSE Bad

(***************************************************************************)
(* Type annotations, and validation of a value against an annotation.      *)
(***************************************************************************)
TAny == [t |-> "Any"]
TStr == [t |-> "str"]
TInt == [t |-> "int"]
TBool == [t |-> "bool"]
TDict == [t |-> "Dict"]
TLiteral == [t |-> "Literal"]
TOptional(ty) == [t |-> "Optional", of |-> ty]
TList(ty) == [t |-> "List", of |-> ty]

\* Include: a list of the four selectors
Include == TList(TLiteral)

\* CollectionMetadata: a mapping
CollectionMetadata == TDict

RECURSIVE Validate(_, _)
Validate(ty, v) ==
    CASE ty.t = "Any" -> AnyV(v)
      [] ty.t = "str" -> StrV(v)
      [] ty.t = "int" -> IntV(v)
      [] ty.t = "bool" -> BoolV(v)
      [] ty.t = "Dict" -> DictV(v)
      [] ty.t = "Literal" -> LiteralV(v)
      [] ty.t = "Optional" -> IF v = Null THEN Ok(Null) ELSE Validate(ty.of, v)
      [] ty.t = "List" ->
            \* only a sequence is accepted, every element validated
            IF v.k # "list" THEN Bad
            ELSE LET outs == [i \in DOMAIN v.v |-> Validate(ty.of, v.v[i])]
                 IN  IF \E i \in DOMAIN outs : outs[i].err THEN Bad
                     ELSE Ok(L([i \in DOMAIN outs |-> outs[i].val]))

(***************************************************************************)
(* A declared field.  An absent key takes the default, or is an error when *)
(* the field is required (Field(...)); an explicit null is accepted only   *)
(* when the field allows None (Optional[...], or a default of None).       *)
(***************************************************************************)
FieldV(p, name, required, allowNone, default, ty) ==
    LET v == p[name]
    IN  IF v = Absent THEN (IF required THEN Bad ELSE Ok(default))
        ELSE IF v = Null THEN (IF allowNone THEN Ok(Null) ELSE Bad)
        ELSE Validate(ty, v)

\* the outcome of a model: the typed request, or the fields in error
Validated(fs) ==
    LET errs == {f \in DOMAIN fs : fs[f].err}
    IN  [ok |-> errs = {},
         errs |-> errs,
         req |-> IF errs = {} THEN [f \in DOMAIN fs |-> fs[f].val] ELSE <<>>]

\* List[List[Union[int, float]]]: every element is tried as an int first
ListOfEmbedding == TList(TList(TInt))

ListOfAny == TList(TAny)
ListOfOptDict == TList(TOptional(TDict))
ListOfOptStr == TList(TOptional(TStr))
ListOfStr == TList(TStr)

(***************************************************************************)
(* class AddEmbedding                                                      *)
(***************************************************************************)
AddEmbedding_embeddings(p) == FieldV(p, "embeddings", FALSE, TRUE, Null, ListOfAny)
AddEmbedding_metadatas(p) == FieldV(p, "metadatas", FALSE, TRUE, Null, ListOfOptDict)
AddEmbedding_documents(p) == FieldV(p, "documents", FALSE, TRUE, Null, ListOfOptStr)
\* ids: List[str] = Field(None, ...): the default None makes the field optional
AddEmbedding_ids(p) == FieldV(p, "ids", FALSE, TRUE, Null, ListOfStr)

\* ParseAddEmbedding with a cross-field check of the array lengths
ParseAddEmbeddingLengthChecked(p) ==
    LET fs == [embeddings |-> AddEmbedding_embeddings(p),
               metadatas |-> AddEmbedding_metadatas(p),
               documents |-> AddEmbedding_documents(p),
               ids |-> AddEmbedding_ids(p)]
        r == Validated(fs)
        short == {f \in {"embeddings", "metadatas", "documents"} :
                     /\ fs[f].val.k = "list"
                     /\ fs.ids.val.k = "list"
                     /\ Len(fs[f].val.v) # Len(fs.ids.val.v)}
    IN  IF short = {} THEN r
        ELSE [ok |-> FALSE, errs |-> r.errs \cup short, req |-> <<>>]

ParseAddEmbedding(p) ==
    Validated([embeddings |-> AddEmbedding_embeddings(p),
               metadatas |-> AddEmbedding_metadatas(p),
               documents |-> AddEmbedding_documents(p),
               ids |-> AddEmbedding_ids(p)])

(***************************************************************************)
(* class UpdateEmbedding                                                   *)
(***************************************************************************)
UpdateEmbedding_embeddings(p) == FieldV(p, "embeddings", FALSE, TRUE, Null, ListOfAny)
UpdateEmbedding_metadatas(p) == FieldV(p, "metadatas", FALSE, TRUE, Null, ListOfOptDict)
UpdateEmbedding_documents(p) == FieldV(p, "documents", FALSE, TRUE, Null, ListOfOptStr)
\* ids: List[str] = Field(..., ...): required
UpdateEmbedding_ids(p) == FieldV(p, "ids", TRUE, FALSE, Null, ListOfStr)

ParseUpdateEmbedding(p) ==
    Validated([embeddings |-> UpdateEmbedding_embeddings(p),
               metadatas |-> UpdateEmbedding_metadatas(p),
               documents |-> UpdateEmbedding_documents(p),
               ids |-> UpdateEmbedding_ids(p)])

(***************************************************************************)
(* Field defaults.  The list given to Field(...) is one object kept by the *)
(* class; a request that omits the field receives a copy of it.            *)
(***************************************************************************)
\* the list given as example= of the include fields
QueryIncludeExample ==
    <<S("metadatas"), S("documents"), S("distances"), S("embeddings")>>

QueryIncludeDefault == <<S("metadatas"), S("documents"), S("distances")>>
GetIncludeDefault == <<S("metadatas"), S("documents"), S("distances")>>

\* the default object itself handed to the instance
GetDefaultShared(cls) == [shared |-> TRUE, val |-> L(classDefault[cls])]

GetDefault(cls) == [shared |-> FALSE, val |-> L(classDefault[cls])]

NResultsDefault == 10

(***************************************************************************)
(* class QueryEmbedding                                                    *)
(***************************************************************************)
QueryEmbedding_where(p) == FieldV(p, "where", FALSE, TRUE, Null, TDict)
QueryEmbedding_where_document(p) == FieldV(p, "where_document", FALSE, TRUE, Null, TDict)
\* query_embeddings declared with Field(None, ...)
QueryEmbedding_query_embeddings_optional(p) ==
    FieldV(p, "query_embeddings", FALSE, TRUE, Null, ListOfAny)

QueryEmbedding_query_embeddings(p) ==
    FieldV(p, "query_embeddings", TRUE, FALSE, Null, ListOfAny)
\* n_results defaulting to its example= value
QueryEmbedding_n_results_example(p) ==
    FieldV(p, "n_results", FALSE, FALSE, I(NResultsDefault - 5), TInt)

QueryEmbedding_n_results(p) ==
    FieldV(p, "n_results", FALSE, FALSE, I(NResultsDefault), TInt)
QueryEmbedding_include(p) ==
    FieldV(p, "include", FALSE, FALSE, GetDefault("QueryEmbedding").val, Include)

ParseQueryEmbedding(p) ==
    Validated([where |-> QueryEmbedding_where(p),
               where_document |-> QueryEmbedding_where_document(p),
               query_embeddings |-> QueryEmbedding_query_embeddings(p),
               n_results |-> QueryEmbedding_n_results(p),
               include |-> QueryEmbedding_include(p)])

(***************************************************************************)
(* class GetEmbedding                                                      *)
(***************************************************************************)
GetEmbedding_ids(p) == FieldV(p, "ids", FALSE, TRUE, Null, ListOfStr)
GetEmbedding_where(p) == FieldV(p, "where", FALSE, TRUE, Null, TDict)
GetEmbedding_where_document(p) == FieldV(p, "where_document", FALSE, TRUE, Null, TDict)
GetEmbedding_sort(p) == FieldV(p, "sort", FALSE, TRUE, Null, TStr)
\* limit declared as a positive integer
GetEmbedding_limit_positive(p) ==
    LET r == FieldV(p, "limit", FALSE, TRUE, Null, TInt)
    IN  IF ~r.err /\ r.val # Null /\ r.val.v < 1 THEN Bad ELSE r

GetEmbedding_limit(p) == FieldV(p, "limit", FALSE, TRUE, Null, TInt)
GetEmbedding_offset(p) == FieldV(p, "offset", FALSE, TRUE, Null, TInt)
GetEmbedding_include(p) ==
    FieldV(p, "include", FALSE, FALSE, GetDefault("GetEmbedding").val, Include)

ParseGetEmbedding(p) ==
    Validated([ids |-> GetEmbedding_ids(p),
               where |-> GetEmbedding_where(p),
               where_document |-> GetEmbedding_where_document(p),
               sort |-> GetEmbedding_sort(p),
               limit |-> GetEmbedding_limit(p),
               offset |-> GetEmbedding_offset(p),
               include |-> GetEmbedding_include(p)])

(***************************************************************************)
(* class DeleteEmbedding                                                   *)
(***************************************************************************)
DeleteEmbedding_ids(p) == FieldV(p, "ids", FALSE, TRUE, Null, ListOfStr)
DeleteEmbedding_where(p) == FieldV(p, "where", FALSE, TRUE, Null, TDict)
DeleteEmbedding_where_document(p) == FieldV(p, "where_document", FALSE, TRUE, Null, TDict)

ParseDeleteEmbedding(p) ==
    Validated([ids |-> DeleteEmbedding_ids(p),
               where |-> DeleteEmbedding_where(p),
               where_document |-> DeleteEmbedding_where_document(p)])

(***************************************************************************)
(* class CreateCollection, class UpdateCollection                          *)
(***************************************************************************)
CreateCollection_name(p) == FieldV(p, "name", TRUE, FALSE, Null, TStr)
CreateCollection_metadata(p) == FieldV(p, "metadata", FALSE, TRUE, Null, CollectionMetadata)
CreateCollection_get_or_create(p) ==
    FieldV(p, "get_or_create", FALSE, FALSE, B(FALSE), TBool)

ParseCreateCollection(p) ==
    Validated([name |-> CreateCollection_name(p),
               metadata |-> CreateCollection_metadata(p),
               get_or_create |-> CreateCollection_get_or_create(p)])

UpdateCollection_new_name(p) == FieldV(p, "new_name", FALSE, TRUE, Null, TStr)
UpdateCollection_new_metadata(p) ==
    FieldV(p, "new_metadata", FALSE, TRUE, Null, CollectionMetadata)

ParseUpdateCollection(p) ==
    Validated([new_name |-> UpdateCollection_new_name(p),
               new_metadata |-> UpdateCollection_new_metadata(p)])

(***************************************************************************)
(* Response shaping: the outbound object of a Get or Query, assembled from *)
(* the rows of the storage engine and the include list of the request.     *)
(***************************************************************************)
OptionalKeys == {"embeddings", "metadatas", "documents", "distances"}

Selected(include) == {k \in OptionalKeys : S(k) \in Range(include.v)}

\* every key present, null when not selected
ShapeResponseNulls(rows, include) ==
    [k \in {"ids"} \cup OptionalKeys |->
        IF k = "ids" \/ k \in Selected(include) THEN rows[k] ELSE Null]

ShapeResponse(rows, include) ==
    [k \in {"ids"} \cup Selected(include) |-> rows[k]]

(***************************************************************************)
(* Payloads.                                                               *)
(***************************************************************************)
Lens == 0..MaxLen

Vec1 == L(<<I(1), F(1)>>)
Vec2 == L(<<F(3), I(-2)>>)
Page == D(S("type") :> S("page"))

EmbeddingsVals == {Absent} \cup {Rep(Vec1, n) : n \in Lens}
MetadatasVals == {Absent, Rep(S("x"), 1)} \cup {Rep(Page, n) : n \in Lens}
DocumentsVals == {Absent} \cup {Rep(S("doc"), n) : n \in Lens}
IdsVals == {Absent, Rep(Null, 1)} \cup {Rep(S("a"), n) : n \in Lens}

EmbeddingPayloads ==
    [embeddings : EmbeddingsVals, metadatas : MetadatasVals,
     documents : DocumentsVals, ids : IdsVals]

Bogus == D(S("$bogus") :> D(S("$nope") :> I(1)))
Color == D(S("color") :> S("red"))
Pairs == L(<<L(<<S("color"), S("red")>>), L(<<S("color"), I(1)>>)>>)

WhereVals == {Absent, Color, Bogus, I(1), Pairs}
WhereDocumentVals == {Absent, Bogus, L(<<>>)}
FilterIdsVals == {Absent, L(<<S("x"), I(1)>>)}

QueryEmbeddingsVals == {Absent, Null, L(<<Vec1, Vec2>>)}
NResultsVals == {Absent, I(-1), I(0), I(5), F(5), S("many")}
IncludeVals == {Absent, L(<<S("documents")>>), L(<<S("uris")>>)}
QueryIncludeVals ==
    {Absent, L(<<S("documents")>>), L(<<S("embeddings"), S("distances")>>)}

QueryPayloads ==
    [where : WhereVals, where_document : WhereDocumentVals,
     query_embeddings : QueryEmbeddingsVals, n_results : NResultsVals,
     include : QueryIncludeVals]

SortVals == {Absent, I(1)}
LimitVals == {Absent, I(0), S("10")}
OffsetVals == {Absent, I(-1), F(-3)}
GetWhereVals == {Absent, Bogus, S("red")}
GetWhereDocumentVals == {Absent, B(TRUE)}

GetPayloads ==
    [ids : FilterIdsVals, where : GetWhereVals,
     where_document : GetWhereDocumentVals, sort : SortVals,
     limit : LimitVals, offset : OffsetVals, include : IncludeVals]

DeletePayloads ==
    [ids : FilterIdsVals \cup {Null, S("x")}, where : WhereVals,
     where_document : WhereDocumentVals]

NameVals == {Absent, Null, S("my-collection"), F(-1), L(<<>>)}
CollectionMetadataVals == {Absent, Null, D(S("type") :> S("pdf-docs")), I(1)}
GetOrCreateVals == {Absent, Null, B(TRUE), I(2), F(0), S("True")}

CreateCollectionPayloads ==
    [name : NameVals, metadata : CollectionMetadataVals, get_or_create : GetOrCreateVals]

UpdateCollectionPayloads ==
    [new_name : NameVals, new_metadata : CollectionMetadataVals]

\* what the storage engine hands back: ids, and each optional column either
\* computed or not
Column == {S("computed"), Null}
RowsVals ==
    {[ids |-> S("computed"), embeddings |-> e, metadatas |-> S("computed"),
      documents |-> S("computed"), distances |-> S("computed")] : e \in Column}

(***************************************************************************)
(* The state: the request being handled (its class, raw payload and the    *)
(* outcome of validation), the default objects kept by the classes, and    *)
(* the response shaped for it.                                             *)
(***************************************************************************)
NoResult == [ok |-> FALSE, errs |-> {}, req |-> <<>>]

Init ==
    /\ model = "none"
    /\ payload = <<>>
    /\ result = NoResult
    /\ lastStep = "init"
    /\ classDefault = [QueryEmbedding |-> QueryIncludeDefault,
                       GetEmbedding |-> GetIncludeDefault]
    /\ includeShared = FALSE
    /\ mutated = FALSE
    /\ nFailed = 0
    /\ response = <<>>

Count(r) == IF r.ok \/ nFailed >= MaxFailed THEN nFailed ELSE nFailed + 1

\* constructing an instance of class cls from payload p, with outcome r
Construct(cls, p, r, shared) ==
    /\ model = "none"
    /\ model' = cls
    /\ payload' = p
    /\ result' = r
    /\ lastStep' = "parse"
    /\ includeShared' = shared
    /\ nFailed' = Count(r)
    /\ UNCHANGED <<classDefault, mutated, response>>

AddEmbedding ==
    \E p \in EmbeddingPayloads :
        Construct("AddEmbedding", p, ParseAddEmbedding(p), FALSE)

UpdateEmbedding ==
    \E p \in EmbeddingPayloads :
        Construct("UpdateEmbedding", p, ParseUpdateEmbedding(p), FALSE)

QueryEmbedding ==
    \E p \in QueryPayloads :
        Construct("QueryEmbedding", p, ParseQueryEmbedding(p),
                  p.include = Absent /\ GetDefault("QueryEmbedding").shared)

GetEmbedding ==
    \E p \in GetPayloads :
        Construct("GetEmbedding", p, ParseGetEmbedding(p),
                  p.include = Absent /\ GetDefault("GetEmbedding").shared)

DeleteEmbedding ==
    \E p \in DeletePayloads :
        Construct("DeleteEmbedding", p, ParseDeleteEmbedding(p), FALSE)

CreateCollection ==
    \E p \in CreateCollectionPayloads :
        Construct("CreateCollection", p, ParseCreateCollection(p), FALSE)

UpdateCollection ==
    \E p \in UpdateCollectionPayloads :
        Construct("UpdateCollection", p, ParseUpdateCollection(p), FALSE)

HasInclude == model \in {"QueryEmbedding", "GetEmbedding"} /\ result.ok

\* the holder of a request appends a selector to its include list
MutateInclude ==
    /\ HasInclude
    /\ lastStep \in {"parse", "mutate"}
    /\ Len(result.req.include.v) < MaxInclude
    /\ LET grown == Append(result.req.include.v, S("embeddings"))
       IN  /\ result' = [result EXCEPT !.req.include = L(grown)]
           /\ classDefault' = IF includeShared
                              THEN [classDefault EXCEPT ![model] = grown]
                              ELSE classDefault
    /\ mutated' = (mutated \/ payload.include = Absent)
    /\ lastStep' = "mutate"
    /\ UNCHANGED <<model, payload, includeShared, nFailed, response>>

\* the response of a Get or Query is shaped from the engine's rows
Shape ==
    /\ HasInclude
    /\ lastStep \in {"parse", "mutate"}
    /\ \E rows \in RowsVals :
           response' = ShapeResponse(rows, result.req.include)
    /\ lastStep' = "shape"
    /\ UNCHANGED <<model, payload, result, classDefault, includeShared,
                   mutated, nFailed>>

\* the request has been handled; its objects are dropped
Finish ==
    /\ model # "none"
    /\ model' = "none"
    /\ payload' = <<>>
    /\ result' = NoResult
    /\ lastStep' = "finish"
    /\ includeShared' = FALSE
    /\ response' = <<>>
    /\ UNCHANGED <<classDefault, mutated, nFailed>>

Next ==
    \/ AddEmbedding
    \/ UpdateEmbedding
    \/ QueryEmbedding
    \/ GetEmbedding
    \/ DeleteEmbedding
    \/ CreateCollection
    \/ UpdateCollection
    \/ MutateInclude
    \/ Shape
    \/ Finish

Spec == Init /\ [][Next]_vars

(***************************************************************************)
(* Properties.                                                             *)
(***************************************************************************)
\* the state right after an instance of cls was constructed
Parsed(cls) == model = cls /\ lastStep = "parse"

IsList(v) == v.k = "list"

ParseOf(cls, p) ==
    IF cls = "AddEmbedding" THEN ParseAddEmbedding(p) ELSE ParseUpdateEmbedding(p)

\* payload p with every field but f omitted
Alone(p, f) == [g \in DOMAIN p |-> IF g = f THEN p[g] ELSE Absent]

ArrayFields == {"embeddings", "metadatas", "documents"}

\* C1 (as claimed): an Add or Update payload in which a supplied parallel
\* array has a length different from len(ids) fails validation.
C1_LengthMismatchRejected ==
    \A cls \in {"AddEmbedding", "UpdateEmbedding"} :
        Parsed(cls) =>
            \A f \in ArrayFields :
                (/\ IsList(payload.ids)
                 /\ IsList(payload[f])
                 /\ Len(payload[f].v) # Len(payload.ids.v)) => ~result.ok

\* C1 (amended): Add and Update compare no lengths.  Each of embeddings,
\* metadatas, documents and ids is validated on its own -- it is in error
\* exactly when it is in error with every other field omitted -- and a
\* validated request carries every supplied array at the length supplied,
\* whether or not that is len(ids).
C1_ArraysValidatedIndependently ==
    \A cls \in {"AddEmbedding", "UpdateEmbedding"} :
        Parsed(cls) =>
            /\ \A f \in ArrayFields \cup {"ids"} :
                   (f \in result.errs) <=> (f \in ParseOf(cls, Alone(payload, f)).errs)
            /\ result.ok =>
                   \A f \in ArrayFields \cup {"ids"} :
                       IsList(payload[f]) =>
                           /\ IsList(result.req[f])
                           /\ Len(result.req[f].v) = Len(payload[f].v)

\* ids of length 2 with metadatas of length 1 is accepted
C1_Witness ==
    /\ Parsed("AddEmbedding")
    /\ result.ok
    /\ IsList(payload.ids) /\ Len(payload.ids.v) = 2
    /\ IsList(payload.metadatas) /\ Len(result.req.metadatas.v) = 1

\* C2 (as claimed): every validated Add or Update request has ids present
\* (not null) and non-empty.
C2_IdsPresentNonEmpty ==
    \A cls \in {"AddEmbedding", "UpdateEmbedding"} :
        (Parsed(cls) /\ result.ok) =>
            /\ IsList(result.req.ids)
            /\ Len(result.req.ids.v) >= 1

Defaulted == <<S("metadatas"), S("documents"), S("distances")>>

\* C3: a Get or Query request parsed from a payload without include has
\* include = {metadatas, documents, distances}, and embeddings is a member
\* of include only when the payload listed it.
C3_IncludeDefault ==
    \A cls \in {"QueryEmbedding", "GetEmbedding"} :
        (Parsed(cls) /\ result.ok) =>
            /\ payload.include = Absent =>
                   Range(result.req.include.v) = Range(Defaulted)
            /\ S("embeddings") \in Range(result.req.include.v) =>
                   /\ IsList(payload.include)
                   /\ S("embeddings") \in Range(payload.include.v)

C3_Witness ==
    /\ Parsed("QueryEmbedding")
    /\ result.ok
    /\ payload.include = Absent
    /\ Cardinality(Range(result.req.include.v)) = 3

\* C4: a Query payload without n_results parses to the same outcome, field
\* for field, as the payload extended with n_results = 10; an integer given
\* for n_results is kept as given.
C4_NResultsDefault ==
    Parsed("QueryEmbedding") =>
        /\ payload.n_results = Absent =>
               result = ParseQueryEmbedding([payload EXCEPT !.n_results = I(10)])
        /\ payload.n_results.k = "int" =>
               /\ "n_results" \notin result.errs
               /\ result.ok => result.req.n_results = payload.n_results

C4_Witness ==
    /\ Parsed("QueryEmbedding")
    /\ result.ok
    /\ payload.n_results = Absent
    /\ result.req.n_results.v = 10

IsMapping(v) == v.k = "dict"

\* C5: a Query payload without query_embeddings and a CreateCollection
\* payload without name fail validation whatever else they carry; a Get or
\* Delete payload without ids has no error on ids, ids = null once parsed,
\* and a Delete payload whose filters are mappings or omitted does parse.
C5_RequiredFields ==
    /\ (Parsed("QueryEmbedding") /\ payload.query_embeddings = Absent) =>
           ~result.ok /\ "query_embeddings" \in result.errs
    /\ (Parsed("CreateCollection") /\ payload.name = Absent) =>
           ~result.ok /\ "name" \in result.errs
    /\ \A cls \in {"GetEmbedding", "DeleteEmbedding"} :
           (Parsed(cls) /\ payload.ids = Absent) =>
               /\ "ids" \notin result.errs
               /\ result.ok => result.req.ids = Null
    /\ (/\ Parsed("DeleteEmbedding")
        /\ payload.ids = Absent
        /\ payload.where = Absent \/ IsMapping(payload.where)
        /\ payload.where_document = Absent \/ IsMapping(payload.where_document))
           => result.ok

\* a Query payload valid in every other field fails on query_embeddings alone
C5_Witness ==
    /\ Parsed("QueryEmbedding")
    /\ payload.query_embeddings = Absent
    /\ result.errs = {"query_embeddings"}

\* C6 (as claimed): a validated Query request has n_results >= 1, and a
\* validated Get request has limit >= 1 and offset >= 0 whenever present.
C6_IntegerBounds ==
    /\ (Parsed("QueryEmbedding") /\ result.ok) => result.req.n_results.v >= 1
    /\ (Parsed("GetEmbedding") /\ result.ok) =>
           /\ result.req.limit # Null => result.req.limit.v >= 1
           /\ result.req.offset # Null => result.req.offset.v >= 0

\* C6 (amended): a validated Query request has an integer n_results and a
\* validated Get request has limit and offset that are integers or null,
\* but no range is enforced: an integer given for n_results, limit or
\* offset is never an error and is carried unchanged whatever its sign.
C6_IntegersUnbounded ==
    /\ Parsed("QueryEmbedding") =>
           /\ result.ok => result.req.n_results.k = "int"
           /\ payload.n_results.k = "int" => "n_results" \notin result.errs
    /\ Parsed("GetEmbedding") =>
           \A f \in {"limit", "offset"} :
               /\ result.ok => result.req[f].k \in {"int", "null"}
               /\ payload[f].k = "int" =>
                      /\ f \notin result.errs
                      /\ result.ok => result.req[f] = payload[f]

\* a Get request with limit = 0 and offset = -1 is accepted
C6_Witness ==
    /\ Parsed("GetEmbedding")
    /\ result.ok
    /\ result.req.limit = I(0)
    /\ result.req.offset = I(-1)

FilterFields == {"where", "where_document"}
FilterClasses == {"QueryEmbedding", "GetEmbedding", "DeleteEmbedding"}

\* C7 (as claimed): a where / where_document that is a mapping is accepted
\* and carried unchanged whatever its keys; one that is neither a mapping
\* nor null fails validation.
C7_OnlyMappingsAccepted ==
    \A cls \in FilterClasses :
        Parsed(cls) =>
            \A f \in FilterFields :
                /\ IsMapping(payload[f]) =>
                       /\ f \notin result.errs
                       /\ result.ok => result.req[f] = payload[f]
                /\ payload[f].k \notin {"dict", "null", "absent"} => ~result.ok

Scalar(v) ==
    \/ v.k \in {"int", "float", "bool"}
    \/ v.k = "str" /\ Len(v.v) > 0

PairList(v) ==
    /\ IsList(v)
    /\ \A i \in DOMAIN v.v :
           IsList(v.v[i]) /\ Len(v.v[i].v) = 2 /\ v.v[i].v[1].k = "str"

\* C7 (amended): a where / where_document that is a mapping is accepted and
\* carried unchanged whatever its keys; a number, a boolean or a non-empty
\* string fails validation; a list of [key, value] pairs with string keys
\* (the empty list included) does not fail: it is converted to the mapping it lists, a
\* later pair replacing an earlier one with the same key.
C7_MappingsAndPairLists ==
    \A cls \in FilterClasses :
        Parsed(cls) =>
            \A f \in FilterFields :
                /\ IsMapping(payload[f]) =>
                       /\ f \notin result.errs
                       /\ result.ok => result.req[f] = payload[f]
                /\ Scalar(payload[f]) => f \in result.errs
                /\ PairList(payload[f]) =>
                       /\ f \notin result.errs
                       /\ result.ok =>
                              /\ IsMapping(result.req[f])
                              /\ DOMAIN result.req[f].v =
                                     {payload[f].v[i].v[1] : i \in DOMAIN payload[f].v}
                              /\ \A i \in DOMAIN payload[f].v :
                                     (\A j \in DOMAIN payload[f].v :
                                          j > i => payload[f].v[j].v[1] # payload[f].v[i].v[1])
                                     => result.req[f].v[payload[f].v[i].v[1]]
                                            = payload[f].v[i].v[2]

\* a Delete request whose where is a list of pairs and whose where_document
\* is the empty list is accepted
C7_Witness ==
    /\ Parsed("DeleteEmbedding")
    /\ result.ok
    /\ payload.where = Pairs
    /\ result.req.where = D(S("color") :> I(1))
    /\ payload.where_document = L(<<>>)
    /\ result.req.where_document = EmptyDict

\* C8: the shaped response always has ids and has exactly those of
\* embeddings, metadatas, documents, distances that the include list names;
\* a key that is not named is absent, computed or not.
C8_ResponseKeys ==
    lastStep = "shape" =>
        /\ "ids" \in DOMAIN response
        /\ \A k \in OptionalKeys :
               k \in DOMAIN response <=> \E i \in DOMAIN result.req.include.v :
                                             result.req.include.v[i] = S(k)
        /\ result.req.include = L(<<S("documents")>>) =>
               DOMAIN response = {"ids", "documents"}

C8_Witness ==
    /\ lastStep = "shape"
    /\ result.req.include = L(<<S("documents")>>)
    /\ DOMAIN response = {"ids", "documents"}

EmbeddingField(cls) ==
    IF cls = "QueryEmbedding" THEN "query_embeddings" ELSE "embeddings"

\* C9: for Add, Update and Query a supplied list of embedding vectors is
\* never an error on account of its elements' numeric kinds, and the typed
\* request holds every element with the kind and value that was sent.
C9_NumericKindPreserved ==
    \A cls \in {"AddEmbedding", "UpdateEmbedding", "QueryEmbedding"} :
        (Parsed(cls) /\ IsList(payload[EmbeddingField(cls)])) =>
            /\ EmbeddingField(cls) \notin result.errs
            /\ result.ok =>
                   result.req[EmbeddingField(cls)] = payload[EmbeddingField(cls)]

\* an accepted vector holding an int and a float
C9_Witness ==
    /\ Parsed("QueryEmbedding")
    /\ result.ok
    /\ result.req.query_embeddings.v[1] = L(<<I(1), F(1)>>)

====
